---- MODULE Spec2Model ----
(***************************************************************************)
(* Model of wx_simple_api.py: the REST engine of WebexSimpleApi            *)
(* (_request_w_response under backoff.on_exception with giveup_429,        *)
(* RestError / ErrorDetail, follow_pagination) and of the schedule update  *)
(* round trips exercised by test/test_telephony_schedule.py.               *)
(***************************************************************************)
EXTENDS Integers, Sequences, FiniteSets, TLC

(***************************************************************************)
(* Bounds of the model                                                     *)
(***************************************************************************)
\* 429 answers the server gives during one call
MaxThrottle == 2
\* pages the server serves during one pagination walk
MaxPages == 2
\* items in the items list of one page
MaxItems == 2
\* entries in the errors list of an error envelope
MaxErrors == 2

(***************************************************************************)
(* Program constants                                                       *)
(***************************************************************************)
\* giveup_429: "if response.status_code != 429"
TooManyRequests == 429
\* giveup_429: response.headers.get('Retry-After', 5)
DefaultRetryAfter == 5
\* giveup_429: min(retry_after, 20)
MaxRetryAfter == 20
\* @backoff.on_exception(backoff.constant, RestError, interval=0, ...)
interval == 0

None == "None"

SeqUpTo(S, n) == UNION {[1..k -> S] : k \in 0..n}

Min(a, b) == IF a <= b THEN a ELSE b

RECURSIVE SumSeq(_)
SumSeq(s) == IF s = <<>> THEN 0 ELSE s[1] + SumSeq(Tail(s))

RECURSIVE Concat(_)
\* the concatenation of a sequence of sequences
Concat(ss) == IF ss = <<>> THEN <<>> ELSE ss[1] \o Concat(Tail(ss))

\* dict.get(k, d)
Get(h, k, d) == IF k \in DOMAIN h THEN h[k] ELSE d

NoHeaders == [k \in {} |-> None]

(***************************************************************************)
(* Wire data.  A header value is a string; the value of Retry-After is     *)
(* written as its sequence of decimal digits (delay-seconds), and a        *)
(* Content-Type value as its sequence of segments (media type first).      *)
(***************************************************************************)
RetryAfterValues == {<<3>>, <<2, 0>>, <<2, 1>>, <<1, 0, 0>>}

RECURSIVE int(_)
\* int(str): the decimal value of a digit string
int(s) == IF s = <<>> THEN 0 ELSE int(SubSeq(s, 1, Len(s) - 1)) * 10 + s[Len(s)]

JsonCT == <<"application/json">>
JsonCharsetCT == <<"application/json", ";charset=UTF-8">>
TextCT == <<"text/plain">>
EmptyCT == <<>>

\* str.startswith, on the first segment of a header value
startswith(v, prefix) == Len(v) >= 1 /\ v[1] = prefix

URLs == {"u1", "u2"}
Methods == {"GET", "POST", "DELETE"}
\* the json= keyword argument of a call
JsonArgs == {None, "payload"}

\* The entries of the errors list of an error envelope
SingleErrors ==
    { ("description" :> "Invalid id" @@ "code" :> 4001),
      ("description" :> "Not found" @@ "code" :> 4004),
      ("description" :> "" @@ "code" :> 0) }

Envelope(errs) ==
    ("message" :> "bad" @@ "errors" :> errs @@ "trackingId" :> "t1")

\* JSON values found in the body of a failed response
ErrorJson ==
    {[type |-> "dict", fields |-> Envelope(errs)] : errs \in SeqUpTo(SingleErrors, MaxErrors)}
    \cup
    { [type |-> "list"],
      [type |-> "dict", fields |-> ("message" :> "bad" @@ "errors" :> <<>>)],
      [type |-> "dict", fields |-> ("message" :> "bad" @@ "errors" :> <<>> @@ "tracking_id" :> "t1")],
      [type |-> "dict", fields |-> Envelope(<<("description" :> "no code")>>)],
      [type |-> "dict", fields |-> NoHeaders] }

\* A body is its raw text: empty, not JSON, or the text of a JSON value
EmptyBody == [wf |-> "empty"]
MalformedBody == [wf |-> "malformed"]
JsonBody(v) == [wf |-> "json", val |-> v]

ErrorBodies == {EmptyBody, MalformedBody} \cup {JsonBody(v) : v \in ErrorJson}

\* The items of page p: opaque objects tagged with their origin; an object
\* that is not valid cannot be decoded into the target model
PageItems(p, valid) == [j \in 1..Len(valid) |-> [page |-> p, idx |-> j, valid |-> valid[j]]]

PageJson(p) ==
    {[type |-> "dict", fields |-> ("items" :> PageItems(p, valid))] :
        valid \in SeqUpTo(BOOLEAN, MaxItems)}
    \cup {[type |-> "dict", fields |-> ("total" :> 0)]}

Links(more) == {NoHeaders} \cup (IF more THEN {("next" :> u) : u \in URLs} ELSE {})

\* Answers with a JSON object: the regular pages of a list, or an entity
PageResponses(p, more) ==
    {[status_code |-> 200, headers |-> ("Content-Type" :> ct), text |-> JsonBody(v), links |-> l] :
        ct \in {JsonCT, JsonCharsetCT}, v \in PageJson(p), l \in Links(more)}

\* Other answers that raise_for_status lets through
OtherResponses(more) ==
    {[status_code |-> s, headers |-> h, text |-> b, links |-> l] :
        s \in {200, 204, 304},
        h \in {NoHeaders, ("Content-Type" :> EmptyCT), ("Content-Type" :> TextCT),
               ("Content-Type" :> JsonCT)},
        b \in {EmptyBody, MalformedBody, JsonBody([type |-> "list"])},
        l \in Links(more)}

ErrorResponses ==
    {[status_code |-> s, headers |-> ("Content-Type" :> JsonCT), text |-> b, links |-> NoHeaders] :
        s \in {400, 404, 500, 503}, b \in ErrorBodies}

ThrottleResponses ==
    {[status_code |-> TooManyRequests, headers |-> h, text |-> b, links |-> NoHeaders] :
        h \in {NoHeaders} \cup {("Retry-After" :> r) : r \in RetryAfterValues},
        b \in {EmptyBody, JsonBody([type |-> "dict", fields |-> Envelope(<<>>)])}}

\* session.request raised instead of answering (no connection)
ConnectionFailure == [failure |-> "ConnectionError"]

NoResponse == [failure |-> None]

IsResponse(r) == "status_code" \in DOMAIN r

(***************************************************************************)
(* RestError and ErrorDetail                                               *)
(***************************************************************************)
\* json.loads(response.text): the parsed value, or JSONDecodeError
json_loads(text) ==
    IF text.wf = "json" THEN [raised |-> None, val |-> text.val]
    ELSE [raised |-> "JSONDecodeError"]

\* SingleError: description: str, code: int, both required
SingleError_valid(e) == {"description", "code"} \subseteq DOMAIN e

\* ErrorDetail.parse_obj: message, errors and tracking_id are required;
\* tracking_id is populated by its alias trackingId or by its field name
ErrorDetail_parse_obj(v) ==
    IF /\ v.type = "dict"
       /\ {"message", "errors"} \subseteq DOMAIN v.fields
       /\ {"trackingId", "tracking_id"} \cap DOMAIN v.fields # {}
       /\ \A i \in DOMAIN v.fields["errors"] : SingleError_valid(v.fields["errors"][i])
    THEN [raised |-> None,
          detail |-> [present |-> TRUE,
                      message |-> v.fields["message"],
                      errors |-> v.fields["errors"],
                      tracking_id |-> Get(v.fields, "trackingId", Get(v.fields, "tracking_id", None))]]
    ELSE [raised |-> "ValidationError"]

\* self.errors and self.errors[0].description or ''
ErrorDetail_description(detail) ==
    IF detail.errors # <<>> /\ detail.errors[1]["description"] # ""
    THEN detail.errors[1]["description"] ELSE ""

\* self.errors and self.errors[0].code or 0
ErrorDetail_code(detail) ==
    IF detail.errors # <<>> /\ detail.errors[1]["code"] # 0
    THEN detail.errors[1]["code"] ELSE 0

NoDetail == [present |-> FALSE]

\* an except clause that names json.JSONDecodeError alone
RestError_caught_json_only == {"JSONDecodeError"}

\* the exceptions the except clause of RestError.__init__ names
RestError_caught == {"JSONDecodeError", "ValidationError"}

\* What the try block of RestError.__init__ does: the detail, or the exception
RestError_try(response) ==
    LET loaded == json_loads(response.text) IN
    IF loaded.raised # None THEN loaded
    ELSE ErrorDetail_parse_obj(loaded.val)

\* RestError(msg, response): secondary is the exception that escapes __init__
RestError(response) ==
    LET t == RestError_try(response) IN
    [response |-> response,
     secondary |-> IF t.raised # None /\ t.raised \notin RestError_caught THEN t.raised ELSE None,
     detail |-> IF t.raised = None THEN t.detail ELSE NoDetail]

\* self.detail and self.detail.description or ''
RestError_description(e) ==
    IF e.detail.present /\ ErrorDetail_description(e.detail) # ""
    THEN ErrorDetail_description(e.detail) ELSE ""

\* self.detail and self.detail.code or 0
RestError_code(e) ==
    IF e.detail.present /\ ErrorDetail_code(e.detail) # 0
    THEN ErrorDetail_code(e.detail) ELSE 0

(***************************************************************************)
(* One attempt, and the retry policy around it                             *)
(***************************************************************************)
\* a status test that takes only 4xx for errors
raise_for_status_4xx(status_code) == 400 <= status_code /\ status_code < 500

\* response.raise_for_status() raises HTTPError on 4xx and 5xx
raise_for_status(status_code) == 400 <= status_code /\ status_code < 600

\* the body decoding without "and response.text": an empty body is parsed too
decode_body_parse_empty(response) ==
    LET ct == Get(response.headers, "Content-Type", <<>>) IN
    IF ct = <<>> THEN [raised |-> None, data |-> [type |-> "str", text |-> EmptyBody]]
    ELSE IF startswith(ct, "application/json")
    THEN LET loaded == json_loads(response.text) IN
         IF loaded.raised # None THEN loaded
         ELSE [raised |-> None, data |-> loaded.val]
    ELSE [raised |-> None, data |-> [type |-> "str", text |-> response.text]]

\* the body decoding with the parse error caught and the raw text returned
decode_body_tolerant(response) ==
    LET ct == Get(response.headers, "Content-Type", <<>>) IN
    IF ct = <<>> THEN [raised |-> None, data |-> [type |-> "str", text |-> EmptyBody]]
    ELSE IF startswith(ct, "application/json") /\ json_loads(response.text).raised = None
    THEN [raised |-> None, data |-> json_loads(response.text).val]
    ELSE [raised |-> None, data |-> [type |-> "str", text |-> response.text]]

\* The body of the answer as _request_w_response decodes it
decode_body(response) ==
    LET ct == Get(response.headers, "Content-Type", <<>>) IN
    IF ct = <<>> THEN [raised |-> None, data |-> [type |-> "str", text |-> EmptyBody]]
    ELSE IF startswith(ct, "application/json") /\ response.text # EmptyBody
    THEN LET loaded == json_loads(response.text) IN
         IF loaded.raised # None THEN loaded
         ELSE [raised |-> None, data |-> loaded.val]
    ELSE [raised |-> None, data |-> [type |-> "str", text |-> response.text]]

\* One run of the body of _request_w_response, given what the session did
request_w_response(r) ==
    IF ~IsResponse(r) THEN [raised |-> r.failure]
    ELSE IF raise_for_status(r.status_code)
    THEN LET e == RestError(r) IN
         IF e.secondary # None THEN [raised |-> e.secondary]
         ELSE [raised |-> "RestError", error |-> e]
    ELSE decode_body(r)

\* giveup_429 without "retry_after = min(retry_after, 20)"
giveup_429_unclamped(e) ==
    IF e.response.status_code # TooManyRequests
    THEN [giveup |-> TRUE, sleeps |-> <<>>]
    ELSE [giveup |-> FALSE,
          sleeps |-> <<IF "Retry-After" \in DOMAIN e.response.headers
                       THEN int(e.response.headers["Retry-After"])
                       ELSE DefaultRetryAfter>>]

\* giveup_429 without its status test: every RestError is slept on and retried
giveup_429_always_retry(e) ==
    [giveup |-> FALSE,
     sleeps |-> <<Min(IF "Retry-After" \in DOMAIN e.response.headers
                      THEN int(e.response.headers["Retry-After"])
                      ELSE DefaultRetryAfter, MaxRetryAfter)>>]

\* giveup_429 ending with "return True": the 429 is slept on, then raised
giveup_429_gives_up(e) ==
    IF e.response.status_code # TooManyRequests
    THEN [giveup |-> TRUE, sleeps |-> <<>>]
    ELSE [giveup |-> TRUE,
          sleeps |-> <<Min(IF "Retry-After" \in DOMAIN e.response.headers
                           THEN int(e.response.headers["Retry-After"])
                           ELSE DefaultRetryAfter, MaxRetryAfter)>>]

\* giveup_429: TRUE ends the retry loop; sleeps are the time.sleep calls made
giveup_429(e) ==
    IF e.response.status_code # TooManyRequests
    THEN [giveup |-> TRUE, sleeps |-> <<>>]
    ELSE LET retry_after ==
                 IF "Retry-After" \in DOMAIN e.response.headers
                 THEN int(e.response.headers["Retry-After"])
                 ELSE DefaultRetryAfter
         IN [giveup |-> FALSE, sleeps |-> <<Min(retry_after, MaxRetryAfter)>>]

\* the attempt without the backoff decorator: every exception is raised
on_exception_undecorated(a) ==
    IF a.raised = None THEN [action |-> "return", sleeps |-> <<>>]
    ELSE [action |-> "raise", sleeps |-> <<>>]

\* backoff.on_exception(backoff.constant, RestError, interval=0,
\* giveup=giveup_429): what follows an attempt that ended as a.
\* No max_tries and no max_time are given.
on_exception(a) ==
    IF a.raised = None THEN [action |-> "return", sleeps |-> <<>>]
    ELSE IF a.raised # "RestError" THEN [action |-> "raise", sleeps |-> <<>>]
    ELSE LET g == giveup_429(a.error) IN
         IF g.giveup THEN [action |-> "raise", sleeps |-> g.sleeps]
         ELSE [action |-> "retry", sleeps |-> g.sleeps \o <<interval>>]

\* What the caller of a failed attempt sees
Raised(a) ==
    IF a.raised = "RestError"
    THEN [kind |-> "raise", exc |-> "RestError",
          status_code |-> a.error.response.status_code,
          description |-> RestError_description(a.error),
          code |-> RestError_code(a.error)]
    ELSE [kind |-> "raise", exc |-> a.raised]

(***************************************************************************)
(* follow_pagination                                                       *)
(***************************************************************************)
\* model.parse_obj(o)
parse_obj(o) == [entity |-> <<o.page, o.idx>>]

\* the items before the first one that does not validate
RECURSIVE ValidPrefix(_)
ValidPrefix(items) ==
    IF items = <<>> \/ ~items[1].valid THEN <<>>
    ELSE <<items[1]>> \o ValidPrefix(Tail(items))

\* the loop body with the new page put in front of the accumulated result
follow_pagination_body_prepend(result, response, data) ==
    LET url == IF "next" \in DOMAIN response.links THEN response.links["next"] ELSE None IN
    IF data.type # "dict"
    THEN [raised |-> "AttributeError", url |-> url, result |-> result]
    ELSE LET items == Get(data.fields, "items", <<>>)
             good == ValidPrefix(items)
             parsed == [i \in 1..Len(good) |-> parse_obj(good[i])]
         IN [raised |-> IF Len(good) < Len(items) THEN "ValidationError" ELSE None,
             url |-> url, result |-> parsed \o result]

\* the loop body with the decoding error swallowed: the walk ends and
\* returns what it has
follow_pagination_body_partial(result, response, data) ==
    LET url == IF "next" \in DOMAIN response.links THEN response.links["next"] ELSE None IN
    IF data.type # "dict"
    THEN [raised |-> "AttributeError", url |-> url, result |-> result]
    ELSE LET items == Get(data.fields, "items", <<>>)
             good == ValidPrefix(items)
             parsed == [i \in 1..Len(good) |-> parse_obj(good[i])]
         IN [raised |-> None,
             url |-> IF Len(good) < Len(items) THEN None ELSE url,
             result |-> result \o parsed]

\* the loop body that ignores where the next link points and goes on at "u1"
follow_pagination_body_fixed_url(result, response, data) ==
    LET url == IF "next" \in DOMAIN response.links THEN "u1" ELSE None IN
    IF data.type # "dict"
    THEN [raised |-> "AttributeError", url |-> url, result |-> result]
    ELSE LET items == Get(data.fields, "items", <<>>)
             good == ValidPrefix(items)
             parsed == [i \in 1..Len(good) |-> parse_obj(good[i])]
         IN [raised |-> IF Len(good) < Len(items) THEN "ValidationError" ELSE None,
             url |-> url, result |-> result \o parsed]

\* One pass of the loop body after _request_w_response returned
follow_pagination_body(result, response, data) ==
    LET url == IF "next" \in DOMAIN response.links THEN response.links["next"] ELSE None IN
    IF data.type # "dict"
    THEN [raised |-> "AttributeError", url |-> url, result |-> result]
    ELSE LET items == Get(data.fields, "items", <<>>)
             good == ValidPrefix(items)
             parsed == [i \in 1..Len(good) |-> parse_obj(good[i])]
         IN [raised |-> IF Len(good) < Len(items) THEN "ValidationError" ELSE None,
             url |-> url, result |-> result \o parsed]

(***************************************************************************)
(* State                                                                   *)
(***************************************************************************)
VARIABLES
    pc,          \* "idle", "ready" (about to send), "waiting" (request sent), "done"
    call,        \* the operation in progress and its arguments
    args,        \* the arguments of the current _request_w_response call
    req,         \* the request last put on the wire
    resp,        \* the answer to it, once handled
    slept,       \* the time.sleep calls made while handling resp
    n429,        \* 429 answers received during this call
    nExchanges,  \* HTTP exchanges made during this call
    retryOf,     \* the request whose 429 answer is being retried, or NoRequest
    url,         \* follow_pagination: the local url
    result,      \* follow_pagination: the local result
    fetched,     \* follow_pagination: the data of the pages returned so far
    outcome,     \* what the caller got: a value returned or an exception raised
    \* the schedule round trips of test_telephony_schedule.py
    server,      \* the schedules the platform holds, by schedule id (wire objects)
    phase,       \* the position of the test in its read-modify-write cycle
    target,      \* target_schedule.selector: the id the cycle starts from
    details,     \* schedules.details(**target_schedule.selector)
    update,      \* the copy of details the caller mutates and submits
    new_id,      \* what schedules.update returned
    after,       \* schedules.details(..., schedule_id=new_id)
    restore,     \* the second update: names swapped back
    final_id,    \* what the second schedules.update returned
    restored,    \* schedules.details(..., schedule_id=final_id)
    \* one entity on its way from a mapping to its encoded form
    stage,       \* "off", "mapping", "entity", "invalid" (ValidationError), "encoded"
    obj,         \* the key/value mapping handed to parse_obj
    party,       \* the entity: the fields that are set, with their values
    assigned,    \* the attributes assigned after decoding, with the value last given
    encoded,     \* what json() wrote
    \* one _request_w_response call and the headers mapping of its caller
    hpc,         \* "off", "ready" (about to attempt), "waiting", "done"
    given,       \* the headers= argument as the caller built it, None when not passed
    kwHeaders,   \* the caller's mapping object as it is now
    sentHeaders, \* the headers handed to self._session.request by the last attempt
    token,       \* self._tokens.access_token
    uuids,       \* uuid.uuid4() calls made so far
    h429,        \* 429 answers received by this call
    hOutcome,    \* "return" or "raise" once the call is over
    \* one exchange made twice, by two runs that differ in the token only
    dpc,         \* "off", "ready", "answered", "dumped"
    debug,       \* log.isEnabledFor(logging.DEBUG)
    tok,         \* the access token of each run
    dreq,        \* method, url and body of the request, the same in both runs
    auth,        \* whether the request now on the wire carries Authorization
    history,     \* response.history of each run: the redirects followed
    final,       \* the response of each run
    trace,       \* what each run wrote to the log
    \* calls made by the threads of a pool through one client
    site,        \* what the platform holds at each URL: a page and its next link
    tcall,       \* the call each thread makes
    tpc,         \* each thread: "ready", "waiting", "done"
    turl,        \* each thread: the URL of its next request (follow_pagination: url)
    results,     \* the accumulators of follow_pagination, by the place they are kept in
    tout,        \* what each thread's call returned or raised
    session,     \* self._session: the threads that have a request on the wire
    t429,        \* 429 answers given so far
    \* the platform's throttling
    mode         \* "finite": at most MaxThrottle 429 answers to a call; "forever"

apiVars == <<pc, call, args, req, resp, slept, n429, nExchanges, retryOf, url, result,
             fetched, outcome>>

schedVars == <<server, phase, target, details, update, new_id, after, restore, final_id,
               restored>>

partyVars == <<stage, obj, party, assigned, encoded>>

hdrVars == <<hpc, given, kwHeaders, sentHeaders, token, uuids, h429, hOutcome>>

dumpVars == <<dpc, debug, tok, dreq, auth, history, final, trace>>

threadVars == <<site, tcall, tpc, turl, results, tout, session, t429>>

liveVars == <<mode>>

vars == <<apiVars, schedVars, partyVars, hdrVars, dumpVars, threadVars, liveVars>>

\* what the actions of one part leave alone
outsideApi == <<schedVars, partyVars, hdrVars, dumpVars, threadVars, liveVars>>
outsideSched == <<apiVars, partyVars, hdrVars, dumpVars, threadVars, liveVars>>
outsideParty == <<apiVars, schedVars, hdrVars, dumpVars, threadVars, liveVars>>
outsideHdr == <<apiVars, schedVars, partyVars, dumpVars, threadVars, liveVars>>
outsideDump == <<apiVars, schedVars, partyVars, hdrVars, threadVars, liveVars>>
outsideThreads == <<apiVars, schedVars, partyVars, hdrVars, dumpVars, liveVars>>

NoRequest == [method |-> None, url |-> None, json |-> None]
NoCall == [op |-> None]
NoOutcome == [kind |-> None]

NoEntity == [k \in {} |-> None]

\* no schedule test is running
SchedIdle ==
    /\ server = NoEntity
    /\ phase = "off"
    /\ target = None
    /\ details = NoEntity
    /\ update = NoEntity
    /\ new_id = None
    /\ after = NoEntity
    /\ restore = NoEntity
    /\ final_id = None
    /\ restored = NoEntity

\* no entity is being decoded
PartyIdle ==
    /\ stage = "off"
    /\ obj = NoEntity
    /\ party = NoEntity
    /\ assigned = NoEntity
    /\ encoded = NoEntity

\* headers=None, and headers=h for a mapping h
NotPassed == [none |-> TRUE, map |-> NoHeaders]
HeadersArg(h) == [none |-> FALSE, map |-> h]

\* no call with a headers argument is under way
HdrIdle ==
    /\ hpc = "off"
    /\ given = NotPassed
    /\ kwHeaders = NotPassed
    /\ sentHeaders = NoHeaders
    /\ token = None
    /\ uuids = 0
    /\ h429 = 0
    /\ hOutcome = None

\* nothing is being dumped
DumpIdle ==
    /\ dpc = "off"
    /\ debug = FALSE
    /\ tok = NoHeaders
    /\ dreq = NoRequest
    /\ auth = FALSE
    /\ history = NoHeaders
    /\ final = NoHeaders
    /\ trace = NoHeaders

\* no pool of threads is running
ThreadsIdle ==
    /\ site = NoHeaders
    /\ tcall = NoHeaders
    /\ tpc = NoHeaders
    /\ turl = NoHeaders
    /\ results = NoHeaders
    /\ tout = NoHeaders
    /\ session = {}
    /\ t429 = 0

\* the platform throttles a call finitely often
LiveIdle == mode = "finite"

ApiInit ==
    /\ pc = "idle"
    /\ call = NoCall
    /\ args = NoRequest
    /\ req = NoRequest
    /\ resp = NoResponse
    /\ slept = <<>>
    /\ n429 = 0
    /\ nExchanges = 0
    /\ retryOf = NoRequest
    /\ url = None
    /\ result = <<>>
    /\ fetched = <<>>
    /\ outcome = NoOutcome

Begin(c, a) ==
    /\ call' = c
    /\ args' = a
    /\ req' = NoRequest
    /\ resp' = NoResponse
    /\ slept' = <<>>
    /\ n429' = 0
    /\ nExchanges' = 0
    /\ retryOf' = NoRequest
    /\ result' = <<>>
    /\ fetched' = <<>>

\* get / post / delete: _request(method, url, json=...)
Request(method, u, json) ==
    /\ pc \in {"idle", "done"}
    /\ Begin([op |-> "request", method |-> method, url |-> u, json |-> json],
             [method |-> method, url |-> u, json |-> json])
    /\ url' = None
    /\ outcome' = NoOutcome
    /\ pc' = "ready"

\* follow_pagination(url=u, model=...): "while url" is not entered for ''
FollowPagination(u) ==
    /\ pc \in {"idle", "done"}
    /\ Begin([op |-> "follow_pagination", url |-> u],
             IF u = "" THEN NoRequest ELSE [method |-> "GET", url |-> u, json |-> None])
    /\ url' = u
    /\ outcome' = IF u = "" THEN [kind |-> "return", value |-> <<>>] ELSE NoOutcome
    /\ pc' = IF u = "" THEN "done" ELSE "ready"

\* self._session.request(method, *args, headers=headers, **kwargs)
SendRequest ==
    /\ pc = "ready"
    /\ req' = args
    /\ nExchanges' = nExchanges + 1
    /\ resp' = NoResponse
    /\ slept' = <<>>
    /\ pc' = "waiting"
    /\ UNCHANGED <<call, args, n429, retryOf, url, result, fetched, outcome>>

\* What the server may answer to the request on the wire
Answers ==
    LET p == Len(fetched) + 1
        more == call.op = "follow_pagination" /\ p < MaxPages
    IN PageResponses(p, more) \cup OtherResponses(more) \cup ErrorResponses
       \cup (IF n429 < MaxThrottle THEN ThrottleResponses ELSE {})
       \cup {ConnectionFailure}

\* The attempt is answered with 429: giveup_429 sleeps, backoff calls again
Retry(r, d) ==
    /\ pc' = "ready"
    /\ resp' = r
    /\ slept' = d.sleeps
    /\ n429' = n429 + 1
    /\ retryOf' = req
    /\ UNCHANGED <<call, args, req, nExchanges, url, result, fetched, outcome>>

\* The attempt raised and backoff lets the exception through
Raise(r, a, d) ==
    /\ pc' = "done"
    /\ resp' = r
    /\ slept' = d.sleeps
    /\ outcome' = Raised(a)
    /\ UNCHANGED <<call, args, req, n429, nExchanges, retryOf, url, result, fetched>>

\* _request: "_, data = self._request_w_response(...); return data"
ReturnData(r, a) ==
    /\ pc' = "done"
    /\ resp' = r
    /\ slept' = <<>>
    /\ outcome' = [kind |-> "return", value |-> a.data]
    /\ retryOf' = NoRequest
    /\ UNCHANGED <<call, args, req, n429, nExchanges, url, result, fetched>>

\* follow_pagination: the rest of the loop body, then "while url" or return
Page(r, a) ==
    LET b == follow_pagination_body(result, r, a.data) IN
    /\ resp' = r
    /\ slept' = <<>>
    /\ retryOf' = NoRequest
    /\ fetched' = Append(fetched, a.data)
    /\ url' = b.url
    /\ result' = b.result
    /\ IF b.raised # None
       THEN /\ pc' = "done"
            /\ outcome' = [kind |-> "raise", exc |-> b.raised]
            /\ args' = args
       ELSE IF b.url # None
       THEN /\ pc' = "ready"
            /\ outcome' = outcome
            /\ args' = [method |-> "GET", url |-> b.url, json |-> None]
       ELSE /\ pc' = "done"
            /\ outcome' = [kind |-> "return", value |-> b.result]
            /\ args' = args
    /\ UNCHANGED <<call, req, n429, nExchanges>>

\* The session answers (or fails) and the attempt runs to its end
Respond(r) ==
    /\ pc = "waiting"
    /\ LET a == request_w_response(r)
           d == on_exception(a)
       IN CASE d.action = "retry" -> Retry(r, d)
            [] d.action = "raise" -> Raise(r, a, d)
            [] d.action = "return" /\ call.op = "request" -> ReturnData(r, a)
            [] d.action = "return" /\ call.op = "follow_pagination" -> Page(r, a)

Init == ApiInit /\ SchedIdle /\ PartyIdle /\ HdrIdle /\ DumpIdle /\ ThreadsIdle /\ LiveIdle

StartRequest ==
    /\ \E method \in Methods, u \in URLs, json \in JsonArgs : Request(method, u, json)
    /\ UNCHANGED outsideApi

StartPagination ==
    /\ \E u \in URLs \cup {""} : FollowPagination(u)
    /\ UNCHANGED outsideApi

Send == SendRequest /\ UNCHANGED outsideApi

Answer ==
    /\ \E r \in Answers : Respond(r)
    /\ UNCHANGED outsideApi

Next == StartRequest \/ StartPagination \/ Send \/ Answer

Spec == Init /\ [][Next]_vars

(***************************************************************************)
(* Properties of the request engine                                        *)
(***************************************************************************)
\* the value of a digit string, read from the left
RECURSIVE DigitsValue(_, _)
DigitsValue(acc, s) == IF s = <<>> THEN acc ELSE DigitsValue(acc * 10 + s[1], Tail(s))

Answered == IsResponse(resp)

Throttled == Answered /\ resp.status_code = 429

\* the answer is an error status other than 429
Failed == Answered /\ resp.status_code >= 400 /\ resp.status_code # 429

\* C1: for every 429 response the delay slept before the retry is min(R, 20),
\* R the integer value of Retry-After, and 5 when the header is absent;
\* Retry-After: 100 gives 20, and no single sleep exceeds 20.
C1_BackoffDelay ==
    Throttled =>
        /\ slept # <<>>
        /\ \A i \in DOMAIN slept : slept[i] <= 20
        /\ IF "Retry-After" \in DOMAIN resp.headers
           THEN LET R == DigitsValue(0, resp.headers["Retry-After"]) IN
                /\ SumSeq(slept) = (IF R < 20 THEN R ELSE 20)
                /\ resp.headers["Retry-After"] = <<1, 0, 0>> => SumSeq(slept) = 20
           ELSE SumSeq(slept) = 5

C1_Witness ==
    /\ Throttled
    /\ pc = "ready"
    /\ "Retry-After" \in DOMAIN resp.headers
    /\ resp.headers["Retry-After"] = <<1, 0, 0>>
    /\ SumSeq(slept) = 20

\* C2: an error status other than 429 ends the request at that attempt: the
\* error reaches the caller, nothing is slept, and no exchange follows the
\* failed one (every exchange of the call is a 429, a page already returned,
\* or the failed one; with none of the former it is the only exchange).
C2_NoRetryOnError ==
    Failed =>
        /\ pc = "done"
        /\ outcome.kind = "raise"
        /\ slept = <<>>
        /\ nExchanges = n429 + Len(fetched) + 1
        /\ (n429 = 0 /\ fetched = <<>>) => nExchanges = 1

C2_Witness ==
    /\ Failed
    /\ resp.status_code = 500
    /\ call.op = "follow_pagination"
    /\ nExchanges = 1
    /\ outcome.kind = "raise"

\* C3: a 429 never reaches the caller: after any number of 429 answers the
\* call is still in progress, the same method, URL and body are sent again,
\* and what the caller gets is a value or an error other than a 429.
C3_ThrottleNeverSurfaced ==
    /\ Throttled =>
           /\ pc = "ready"
           /\ outcome = NoOutcome
           /\ args = req
           /\ retryOf = req
    /\ (pc = "waiting" /\ retryOf # NoRequest) => req = retryOf
    /\ outcome.kind \in {None, "return", "raise"}
    /\ (outcome.kind = "raise" /\ outcome.exc = "RestError") => outcome.status_code # 429

C3_Witness ==
    /\ pc = "waiting"
    /\ n429 = MaxThrottle
    /\ nExchanges = MaxThrottle + 1
    /\ req = retryOf
    /\ req.method = "POST"
    /\ req.json = "payload"

\* the items field of a returned page, nothing when the body has none
ItemsOf(data) ==
    IF data.type = "dict" /\ "items" \in DOMAIN data.fields THEN data.fields["items"] ELSE <<>>

\* the entities of the pages returned so far, page by page
Entities == Concat([k \in DOMAIN fetched |->
                       [j \in DOMAIN ItemsOf(fetched[k]) |->
                           [entity |-> <<k, j>>]]])

ItemCount == SumSeq([k \in DOMAIN fetched |-> Len(ItemsOf(fetched[k]))])

\* C4: what follow_pagination returns is the concatenation of the items of
\* all pages: as many elements as the pages have items, pages in the order
\* fetched, items in their order within the page, nothing for a page whose
\* body has no items field.
C4_Concatenation ==
    (call.op = "follow_pagination" /\ outcome.kind = "return") =>
        /\ outcome.value = Entities
        /\ Len(outcome.value) = ItemCount
        /\ \A k \in DOMAIN fetched : \A j \in DOMAIN ItemsOf(fetched[k]) :
               ItemsOf(fetched[k])[j].page = k /\ ItemsOf(fetched[k])[j].idx = j
        /\ nExchanges = n429 + Len(fetched)

C4_Witness ==
    /\ call.op = "follow_pagination"
    /\ outcome.kind = "return"
    /\ Len(fetched) = 2
    /\ Len(ItemsOf(fetched[1])) = 2
    /\ "items" \notin DOMAIN fetched[2].fields
    /\ Len(outcome.value) = 2

\* the last page returned holds an item that cannot be decoded
UndecodablePage ==
    /\ fetched # <<>>
    /\ \E j \in DOMAIN ItemsOf(fetched[Len(fetched)]) : ~ItemsOf(fetched[Len(fetched)])[j].valid

\* C5: no partial result: when the fetch or the typed decoding of a page
\* fails with an error other than a 429, the walk is over with that one error
\* raised, no value is returned, and a returned value is complete (the last
\* page has no next link and every item of every page is in it).
C5_NoPartialResult ==
    call.op = "follow_pagination" =>
        /\ (Failed \/ resp = ConnectionFailure \/ (Answered /\ ~Throttled /\ UndecodablePage)) =>
               /\ pc = "done"
               /\ outcome.kind = "raise"
               /\ "value" \notin DOMAIN outcome
               /\ nExchanges = n429 + Len(fetched) + (IF UndecodablePage THEN 0 ELSE 1)
        /\ (outcome.kind = "return" /\ Answered) =>
               /\ "next" \notin DOMAIN resp.links
               /\ Len(outcome.value) = ItemCount

C5_Witness ==
    /\ call.op = "follow_pagination"
    /\ pc = "done"
    /\ Len(fetched) = 2
    /\ Len(result) >= 2
    /\ UndecodablePage
    /\ outcome.kind = "raise"
    /\ outcome.exc = "ValidationError"

MatchesEnvelope(text) ==
    /\ text.wf = "json"
    /\ text.val.type = "dict"
    /\ {"message", "errors"} \subseteq DOMAIN text.val.fields
    /\ ("trackingId" \in DOMAIN text.val.fields \/ "tracking_id" \in DOMAIN text.val.fields)
    /\ \A i \in DOMAIN text.val.fields["errors"] :
           {"description", "code"} \subseteq DOMAIN text.val.fields["errors"][i]

Passed == Answered /\ resp.status_code < 400 /\ pc = "done"

\* a Content-Type header is there and its value is not empty
HasContentType == "Content-Type" \in DOMAIN resp.headers /\ resp.headers["Content-Type"] # <<>>

\* the media type of the answer is application/json
IndicatesJson == HasContentType /\ resp.headers["Content-Type"][1] = "application/json"

Returns(v) == outcome.kind = "return" /\ outcome.value = v

RawText(t) == [type |-> "str", text |-> t]

\* C13 as stated: a successful answer without Content-Type gives an empty
\* body, one whose Content-Type indicates JSON gives the parsed value, and
\* any other Content-Type gives the raw text.
C13_ThreeWayRule ==
    (Passed /\ resp.status_code \in 200..299 /\ call.op = "request") =>
        IF "Content-Type" \notin DOMAIN resp.headers THEN Returns(RawText(EmptyBody))
        ELSE IF IndicatesJson THEN resp.text.wf = "json" /\ Returns(resp.text.val)
        ELSE Returns(RawText(resp.text))

\* C13: an answer that passed the status check is decoded by four cases: no
\* Content-Type or an empty one gives the empty string; application/json with
\* a body that is well-formed JSON gives the parsed value; application/json
\* with a body that is not empty and not JSON gives no result, the call ends
\* with the parser's error; every other answer, application/json with an empty
\* body included, gives the raw text.
C13_DecodedBody ==
    (Passed /\ call.op = "request") =>
        IF ~HasContentType THEN Returns(RawText(EmptyBody))
        ELSE IF IndicatesJson /\ resp.text.wf = "json" THEN Returns(resp.text.val)
        ELSE IF IndicatesJson /\ resp.text # EmptyBody
        THEN outcome.kind = "raise" /\ outcome.exc = "JSONDecodeError"
        ELSE Returns(RawText(resp.text))

C13_Witness ==
    /\ Passed
    /\ call.op = "request"
    /\ IndicatesJson
    /\ resp.text = EmptyBody
    /\ Returns(RawText(EmptyBody))

\* C14 as stated: a successful answer that declares JSON and has a malformed
\* body is returned to the caller as its raw text.
C14_MalformedReturnsText ==
    (Passed /\ resp.status_code \in 200..299 /\ call.op = "request"
        /\ IndicatesJson /\ resp.text = MalformedBody) =>
        Returns(RawText(MalformedBody))

\* C14: an answer that passed the status check, declares application/json and
\* has a malformed body ends the call, a single request or a pagination walk,
\* with the parser's JSONDecodeError: nothing is returned, the error is not a
\* RestError, and the attempt is not repeated.
C14_MalformedRaises ==
    (Answered /\ resp.status_code < 400 /\ IndicatesJson /\ resp.text = MalformedBody) =>
        /\ pc = "done"
        /\ outcome.kind = "raise"
        /\ outcome.exc = "JSONDecodeError"
        /\ nExchanges = n429 + Len(fetched) + 1

C14_Witness ==
    /\ Passed
    /\ resp.status_code = 200
    /\ call.op = "follow_pagination"
    /\ Len(fetched) = 1
    /\ IndicatesJson
    /\ resp.text = MalformedBody
    /\ outcome.kind = "raise"
    /\ outcome.exc = "JSONDecodeError"

\* a pagination walk is between its first request and its end
Walking == call.op = "follow_pagination" /\ pc \in {"ready", "waiting"}

\* the entities of one page, tagged with the position k of the page
PageEntities(k, data) == [j \in DOMAIN ItemsOf(data) |-> [entity |-> <<k, j>>]]

\* every exchange of the walk so far is a 429, a page returned, or the one
\* request outstanding; the accumulator holds each returned page once
C17_Serial ==
    Walking =>
        /\ nExchanges = n429 + Len(fetched) + (IF pc = "waiting" THEN 1 ELSE 0)
        /\ result = Entities
        /\ req # NoRequest => req.method = "GET"

\* the steps of a walk: a request goes out only when none is outstanding and
\* goes to the local url; a page is taken from an answer below 400 only, its
\* items are appended once and url becomes that answer's next link; a 429
\* leaves url, result and the pages alone and the same request is made again
C17_Step ==
    Walking =>
        /\ nExchanges' # nExchanges =>
               /\ pc = "ready" /\ pc' = "waiting"
               /\ nExchanges' = nExchanges + 1
               /\ req' = [method |-> "GET", url |-> url, json |-> None]
               /\ retryOf # NoRequest => req' = retryOf
        /\ fetched' # fetched =>
               /\ pc = "waiting"
               /\ IsResponse(resp') /\ resp'.status_code < 400
               /\ fetched' = Append(fetched, fetched'[Len(fetched')])
               /\ url' = Get(resp'.links, "next", None)
               /\ pc' = "ready" =>
                      /\ url' \in URLs
                      /\ result' = result \o PageEntities(Len(fetched'), fetched'[Len(fetched')])
               /\ (pc' = "done" /\ outcome'.kind = "return") => url' = None
        /\ (pc = "waiting" /\ IsResponse(resp') /\ resp'.status_code = 429) =>
               /\ pc' = "ready"
               /\ retryOf' = req
               /\ UNCHANGED <<args, url, result, fetched>>
        /\ url' # url => fetched' # fetched

\* C17: within one pagination walk the requests are serial and follow the
\* links: at most one request is outstanding, the GET for page k+1 is issued
\* only after page k was answered successfully and goes to the URL of that
\* answer's next link, an attempt answered with 429 is repeated at the same
\* URL and contributes no items, and every page is fetched successfully once
\* and its items are appended once.
C17_SerialWalk == []C17_Serial /\ [][C17_Step]_vars

C17_Witness ==
    /\ call.op = "follow_pagination"
    /\ pc = "done"
    /\ outcome.kind = "return"
    /\ Len(fetched) = 2
    /\ n429 = 1
    /\ nExchanges = 3
    /\ req.url = "u2"
    /\ call.url = "u1"
    /\ Len(outcome.value) = 3

(***************************************************************************)
(* ApiModel: entities and their wire form.  A field name is written as its *)
(* underscore-separated words, a wire name as the pieces that are joined.  *)
(* An entity is the mapping of the fields that are set (__fields_set__).   *)
(***************************************************************************)
\* bound of the schedule model: events of the schedule under test
MaxEvents == 2

\* str.title() on the words of the field names
title(w) ==
    CASE w = "id" -> "Id"
      [] w = "name" -> "Name"
      [] w = "date" -> "Date"
      [] w = "type" -> "Type"
      [] w = "enabled" -> "Enabled"
      [] OTHER -> w

\* a to_camel that title-cases the first word too
to_camel_all(s) == [i \in DOMAIN s |-> title(s[i])]

\* ''.join(w.title() if i else w for i, w in enumerate(s.split('_')))
to_camel(s) == [i \in DOMAIN s |-> IF i = 1 THEN s[i] ELSE title(s[i])]

event_id == <<"event", "id">>
name == <<"name">>
new_name == <<"new", "name">>
start_date == <<"start", "date">>
schedule_id == <<"schedule", "id">>
schedule_type == <<"schedule", "type">>
events == <<"events">>

\* Event: the declared fields, and the aliases given with Field(alias=...)
Event == [fields |-> {event_id, name, new_name, start_date},
          alias |-> (event_id :> <<"id">>)]

\* Schedule: the declared fields, and the aliases given with Field(alias=...)
Schedule == [fields |-> {schedule_id, name, schedule_type, events},
             alias |-> (schedule_id :> <<"id">> @@ schedule_type :> <<"type">>)]

\* the alias of a declared field: Field(alias=...) or Config.alias_generator
Alias(model, f) == IF f \in DOMAIN model.alias THEN model.alias[f] ELSE to_camel(f)

\* the key under which a set field is written with by_alias=True
WireKey(model, f) == IF f \in model.fields THEN Alias(model, f) ELSE f

\* ApiModel.json with by_alias=False: keys are the field names
ApiModel_json_by_name(model, e) == e

\* ApiModel.json with exclude_unset=False: unset fields are written as null
ApiModel_json_with_unset(model, e) ==
    LET fs == DOMAIN e \cup model.fields
        keys == {WireKey(model, f) : f \in fs}
    IN [k \in keys |->
           LET f == CHOOSE g \in fs : WireKey(model, g) = k IN
           IF f \in DOMAIN e THEN e[f] ELSE None]

\* ApiModel.json(exclude_unset=True, by_alias=True), the fields of one model
ApiModel_json(model, e) ==
    LET keys == {WireKey(model, f) : f \in DOMAIN e}
    IN [k \in keys |-> e[CHOOSE f \in DOMAIN e : WireKey(model, f) = k]]

\* the field a key of the mapping populates: by alias, by field name
\* (allow_population_by_field_name), or an extra attribute (extra = 'allow')
FieldOf(model, k) ==
    IF \E f \in model.fields : Alias(model, f) = k
    THEN CHOOSE f \in model.fields : Alias(model, f) = k
    ELSE k

\* ApiModel.parse_obj with extra = 'ignore': undeclared keys are dropped
ApiModel_parse_obj_ignore(model, o) ==
    LET fs == {FieldOf(model, k) : k \in DOMAIN o} \cap model.fields
    IN [f \in fs |-> o[CHOOSE k \in DOMAIN o : FieldOf(model, k) = f]]

\* ApiModel.parse_obj, the fields of one model
ApiModel_parse_obj(model, o) ==
    LET fs == {FieldOf(model, k) : k \in DOMAIN o}
    IN [f \in fs |-> o[CHOOSE k \in DOMAIN o : FieldOf(model, k) = f]]

\* Schedule.parse_obj: events is a List[Event]
Schedule_parse_obj(o) ==
    LET e == ApiModel_parse_obj(Schedule, o) IN
    IF events \in DOMAIN e
    THEN [e EXCEPT ![events] = [i \in DOMAIN e[events] |-> ApiModel_parse_obj(Event, e[events][i])]]
    ELSE e

\* Schedule.json(): the events are written by the same rules
Schedule_json(e) ==
    LET o == ApiModel_json(Schedule, e) IN
    IF events \in DOMAIN e
    THEN [o EXCEPT ![WireKey(Schedule, events)] =
              [i \in DOMAIN e[events] |-> ApiModel_json(Event, e[events][i])]]
    ELSE o

(***************************************************************************)
(* The platform's side of a schedule update                                *)
(***************************************************************************)
W_id == <<"id">>
W_name == <<"name">>
W_newName == <<"new", "Name">>
W_startDate == <<"start", "Date">>
W_type == <<"type">>
W_events == <<"events">>

EventIds == 1..(MaxEvents + 1)
ScheduleIds == {"s1", "s2"}
BaseNames == <<"A", "B", "C", "D">>
ScheduleNames == {"test_000", "test_001"}

\* f'U{event.name}'
U(n) ==
    CASE n = "A" -> "UA" [] n = "B" -> "UB" [] n = "C" -> "UC" [] n = "D" -> "UD"
      [] OTHER -> n

\* the events a schedule starts with: ids and names by position, the start
\* date set or absent
InitialEvents ==
    UNION {
        {[i \in 1..n |->
             IF dated[i]
             THEN (W_id :> i @@ W_name :> BaseNames[i] @@ W_startDate :> "2022-01-01")
             ELSE (W_id :> i @@ W_name :> BaseNames[i])] : dated \in [1..n -> BOOLEAN]}
        : n \in 0..MaxEvents}

InitialSchedules ==
    {(W_id :> "s1" @@ W_name :> "test_000" @@ W_type :> "businessHours" @@ W_events :> evs) :
        evs \in InitialEvents}

\* the event asks for a rename: newName is given and differs from name
RenameRequested(pe) == W_newName \in DOMAIN pe /\ pe[W_newName] # Get(pe, W_name, None)

\* the event the platform stores for a submitted event, under the id it assigns
StoredEvent(pe, id) ==
    LET keys == (DOMAIN pe \cap {W_name, W_startDate}) \cup {W_id} IN
    [k \in keys |->
        IF k = W_id THEN id
        ELSE IF k = W_name /\ RenameRequested(pe) THEN pe[W_newName]
        ELSE pe[k]]

\* the ids the platform may give the events of a payload: an event that is
\* not renamed keeps the id it came with, a renamed one keeps it or gets
\* one no event of the payload has
AssignedEventIds(pes) ==
    LET used == {pes[i][W_id] : i \in {j \in DOMAIN pes : W_id \in DOMAIN pes[j]}} IN
    {ids \in [DOMAIN pes -> EventIds] :
        /\ \A i, j \in DOMAIN pes : i # j => ids[i] # ids[j]
        /\ \A i \in DOMAIN pes :
               IF W_id \in DOMAIN pes[i]
               THEN \/ ids[i] = pes[i][W_id]
                    \/ RenameRequested(pes[i]) /\ ids[i] \notin used
               ELSE ids[i] \notin used}

\* the schedule stored after PUT of payload on the schedule stored as old:
\* the name is replaced when given, the event collection when given
StoredSchedule(old, payload, id, ids) ==
    [old EXCEPT ![W_id] = id,
                ![W_name] = Get(payload, W_name, old[W_name]),
                ![W_events] = IF W_events \in DOMAIN payload
                              THEN [i \in DOMAIN payload[W_events] |->
                                       StoredEvent(payload[W_events][i], ids[i])]
                              ELSE old[W_events]]

\* the ids the platform may give the schedule: a new one only with a new name
AssignedScheduleIds(old, payload) ==
    IF Get(payload, W_name, old[W_name]) # old[W_name] THEN ScheduleIds ELSE {old[W_id]}

\* schedules.update(schedule=..., schedule_id=sid): PUT of schedule.json();
\* the platform stores the result and the call returns its id in rid'
schedules_update(schedule, sid, rid) ==
    LET payload == Schedule_json(schedule)
        old == server[sid]
    IN \E id \in AssignedScheduleIds(old, payload) :
       \E ids \in AssignedEventIds(Get(payload, W_events, <<>>)) :
           /\ server' = (id :> StoredSchedule(old, payload, id, ids))
           /\ rid' = id

\* schedules.details(schedule_id=sid)
schedules_details(sid) == Schedule_parse_obj(server[sid])

(***************************************************************************)
(* The read-modify-write cycle of TestUpdateSchedule                       *)
(***************************************************************************)
SchedInit ==
    /\ ApiInit
    /\ PartyIdle
    /\ HdrIdle
    /\ DumpIdle
    /\ ThreadsIdle
    /\ LiveIdle
    /\ \E sched \in InitialSchedules : server = ("s1" :> sched)
    /\ phase = "start"
    /\ target = "s1"
    /\ details = NoEntity
    /\ update = NoEntity
    /\ new_id = None
    /\ after = NoEntity
    /\ restore = NoEntity
    /\ final_id = None
    /\ restored = NoEntity

\* details = schedules.details(**target_schedule.selector);
\* update = details.copy(deep=True)
Details ==
    /\ phase = "start"
    /\ details' = schedules_details(target)
    /\ update' = details'
    /\ phase' = "fetched"
    /\ UNCHANGED <<server, target, new_id, after, restore, final_id, restored>>
    /\ UNCHANGED outsideSched

\* event.new_name = n, for an event of update
SetNewName ==
    /\ phase = "fetched"
    /\ \E i \in DOMAIN update[events] :
           /\ new_name \notin DOMAIN update[events][i]
           /\ \E n \in {update[events][i][name], U(update[events][i][name])} :
                  update' = [update EXCEPT ![events] =
                                [@ EXCEPT ![i] = (new_name :> n) @@ @]]
    /\ UNCHANGED <<server, phase, target, details, new_id, after, restore, final_id, restored>>
    /\ UNCHANGED outsideSched

\* details.name = new_name, for the schedule
SetScheduleName ==
    /\ phase = "fetched"
    /\ update[name] = details[name]
    /\ \E n \in ScheduleNames \ {details[name]} : update' = [update EXCEPT ![name] = n]
    /\ UNCHANGED <<server, phase, target, details, new_id, after, restore, final_id, restored>>
    /\ UNCHANGED outsideSched

\* new_id = schedules.update(schedule=update, **target_schedule.selector)
Update ==
    /\ phase = "fetched"
    /\ schedules_update(update, target, new_id)
    /\ phase' = "updated"
    /\ UNCHANGED <<target, details, update, after, restore, final_id, restored>>
    /\ UNCHANGED outsideSched

\* after = schedules.details(..., schedule_id=new_id)
DetailsAfter ==
    /\ phase = "updated"
    /\ after' = schedules_details(new_id)
    /\ phase' = "after"
    /\ UNCHANGED <<server, target, details, update, new_id, restore, final_id, restored>>
    /\ UNCHANGED outsideSched

\* a swap written as two assignments: both names end as new_name
swap_names_sequential(event) ==
    IF new_name \in DOMAIN event
    THEN [event EXCEPT ![name] = event[new_name]]
    ELSE event

\* event.name, event.new_name = event.new_name, event.name
swap_names(event) ==
    IF new_name \in DOMAIN event
    THEN [event EXCEPT ![name] = event[new_name], ![new_name] = event[name]]
    ELSE event

\* restore = update.copy(deep=True) with the names of every renamed event
\* swapped and the schedule's old name, then schedules.update at new_id
Restore ==
    /\ phase = "after"
    /\ restore' = [update EXCEPT ![name] = details[name],
                                 ![events] = [i \in DOMAIN @ |-> swap_names(@[i])]]
    /\ schedules_update(restore', new_id, final_id)
    /\ phase' = "restoring"
    /\ UNCHANGED <<target, details, update, new_id, after, restored>>
    /\ UNCHANGED outsideSched

\* reading the schedule back after the second update
DetailsRestored ==
    /\ phase = "restoring"
    /\ restored' = schedules_details(final_id)
    /\ phase' = "restored"
    /\ UNCHANGED <<server, target, details, update, new_id, after, restore, final_id>>
    /\ UNCHANGED outsideSched

SchedNext ==
    Details \/ SetNewName \/ SetScheduleName \/ Update \/ DetailsAfter \/ Restore
    \/ DetailsRestored

SpecSchedule == SchedInit /\ [][SchedNext]_vars

(***************************************************************************)
(* Properties of the schedule round trips                                  *)
(***************************************************************************)
\* an entity without some of its fields
Without(e, fs) == [f \in DOMAIN e \ fs |-> e[f]]

\* the update set new_name on some events and changed nothing else
RenameOnly ==
    /\ update[name] = details[name]
    /\ Without(update, {events}) = Without(details, {events})
    /\ Len(update[events]) = Len(details[events])
    /\ \A i \in DOMAIN update[events] :
           Without(update[events][i], {new_name}) = details[events][i]

\* event i of the update carries a new_name
Renaming(i) == new_name \in DOMAIN update[events][i]

\* the name event i is to have after the update
NameAfter(i) ==
    IF Renaming(i) THEN update[events][i][new_name] ELSE details[events][i][name]

EncodedEvents(e) == [i \in DOMAIN e[events] |-> ApiModel_json(Event, e[events][i])]

\* the same without the ids
EncodedEventsNoId(e) ==
    [i \in DOMAIN e[events] |-> ApiModel_json(Event, Without(e[events][i], {event_id}))]

NameOnly ==
    /\ update[name] # details[name]
    /\ Without(update, {name}) = Without(details, {name})

\* C10: an update of the schedule's name alone returns the id under which
\* the schedule is read afterwards, which may differ from the original one:
\* the details read by it have the new name and the events of before, in
\* content and order.
C10_NameUpdateKeepsEvents ==
    /\ (phase \in {"updated", "after"} /\ NameOnly) =>
           /\ new_id \in DOMAIN server
           /\ schedules_details(new_id)[name] = update[name]
           /\ schedules_details(new_id)[schedule_id] = new_id
    /\ (phase = "after" /\ NameOnly) =>
           /\ after[name] = update[name]
           /\ after[events] = details[events]
           /\ after[schedule_id] = new_id

C10_Witness ==
    /\ phase = "after"
    /\ NameOnly
    /\ new_id # target
    /\ target \notin DOMAIN server
    /\ Len(details[events]) = MaxEvents
    /\ after[name] = "test_001"
    /\ after[events] = details[events]

(***************************************************************************)
(* One entity from a mapping to its encoded form: TelephonyEventParty      *)
(***************************************************************************)
\* bound: attribute assignments between decoding and encoding
MaxAssign == 1

number == <<"number">>
person_id == <<"person", "id">>
place_id == <<"place", "id">>
privacy_enabled == <<"privacy", "enabled">>
call_type == <<"call", "type">>

CallType == {"location", "organization", "external", "emergency", "repair", "other"}

\* TelephonyEventParty: the declared fields; no Field(alias=...)
TelephonyEventParty ==
    [fields |-> {name, number, person_id, place_id, privacy_enabled, call_type},
     alias |-> NoEntity]

\* the fields declared without Optional
TelephonyEventParty_required == {number, privacy_enabled, call_type}

\* TelephonyEventParty.parse_obj: a missing or null required field, or a call
\* type outside the enumeration, is a ValidationError
TelephonyEventParty_parse_obj(o) ==
    LET e == ApiModel_parse_obj(TelephonyEventParty, o) IN
    IF \E f \in TelephonyEventParty_required : f \notin DOMAIN e \/ e[f] = None
    THEN [raised |-> "ValidationError", val |-> NoEntity]
    ELSE IF e[call_type] \notin CallType
    THEN [raised |-> "ValidationError", val |-> NoEntity]
    ELSE [raised |-> None, val |-> e]

\* a key no field of TelephonyEventParty declares
UnknownKey == <<"department">>

\* the mappings decoded: the required keys (complete, one missing, or a call
\* type outside the enumeration), any of the optional keys with a string or
\* null, personId under its wire name or its field name, and possibly a key
\* that is not declared
RequiredParts ==
    { <<"number">> :> "n" @@ <<"privacy", "Enabled">> :> "off" @@ <<"call", "Type">> :> "location",
      <<"privacy", "Enabled">> :> "off" @@ <<"call", "Type">> :> "location",
      <<"number">> :> "n" @@ <<"privacy", "Enabled">> :> "off" @@ <<"call", "Type">> :> "bogus" }

OptionalParts ==
    LET Entry(k) == {NoEntity} \cup {k :> v : v \in {"s", None}}
    IN {a @@ b @@ c : a \in Entry(<<"name">>),
                      b \in Entry(<<"person", "Id">>) \cup Entry(person_id),
                      c \in Entry(<<"place", "Id">>)}

PartyObjects ==
    {r @@ o @@ x : r \in RequiredParts, o \in OptionalParts,
                   x \in {NoEntity, UnknownKey :> "x"}}

\* the attributes assigned after decoding, and the values given
AssignedFields == {name, person_id, place_id}
AssignedValues == {"t", None}

PartyInit ==
    /\ ApiInit
    /\ SchedIdle
    /\ HdrIdle
    /\ DumpIdle
    /\ ThreadsIdle
    /\ LiveIdle
    /\ stage = "mapping"
    /\ obj \in PartyObjects
    /\ party = NoEntity
    /\ assigned = NoEntity
    /\ encoded = NoEntity

\* party = TelephonyEventParty.parse_obj(obj)
Decode ==
    /\ stage = "mapping"
    /\ LET p == TelephonyEventParty_parse_obj(obj) IN
       IF p.raised # None
       THEN stage' = "invalid" /\ party' = party
       ELSE stage' = "entity" /\ party' = p.val
    /\ UNCHANGED <<obj, assigned, encoded>>
    /\ UNCHANGED outsideParty

\* party.f = v: the attribute is set and joins __fields_set__
Assign ==
    /\ stage = "entity"
    /\ Cardinality(DOMAIN assigned) < MaxAssign
    /\ \E f \in AssignedFields \ DOMAIN assigned, v \in AssignedValues :
           /\ party' = [g \in DOMAIN party \cup {f} |-> IF g = f THEN v ELSE party[g]]
           /\ assigned' = [g \in DOMAIN assigned \cup {f} |-> IF g = f THEN v ELSE assigned[g]]
    /\ UNCHANGED <<stage, obj, encoded>>
    /\ UNCHANGED outsideParty

\* encoded = party.json()
Encode ==
    /\ stage = "entity"
    /\ encoded' = ApiModel_json(TelephonyEventParty, party)
    /\ stage' = "encoded"
    /\ UNCHANGED <<obj, party, assigned>>
    /\ UNCHANGED outsideParty

PartyNext == Decode \/ Assign \/ Encode

SpecParty == PartyInit /\ [][PartyNext]_vars

\* the wire name of each declared field, as the platform documents it
WireName(f) ==
    CASE f = name -> <<"name">>
      [] f = number -> <<"number">>
      [] f = person_id -> <<"person", "Id">>
      [] f = place_id -> <<"place", "Id">>
      [] f = privacy_enabled -> <<"privacy", "Enabled">>
      [] f = call_type -> <<"call", "Type">>
      [] OTHER -> f

\* the wire name of a key of the mapping, given by wire name or by field name
Canonical(k) == WireName(k)

\* the wire names set by decoding obj, and those set by assignment
DecodedKeys == {Canonical(k) : k \in DOMAIN obj}
AssignedKeys == {WireName(f) : f \in DOMAIN assigned}

\* the value the mapping gave under a wire name
DecodedValue(w) == obj[CHOOSE k \in DOMAIN obj : Canonical(k) = w]

\* C11: the encoded entity holds exactly the fields set by decoding or by a
\* later assignment, each under its camel-case wire name with the value last
\* given to it: a field absent from the mapping and never assigned is not
\* written, a field set to null is written as null, and without assignment
\* every key written is a key of the mapping decoded.
C11_EncodeEmitsSetFields ==
    stage = "encoded" =>
        /\ DOMAIN encoded = DecodedKeys \cup AssignedKeys
        /\ \A f \in DOMAIN assigned : encoded[WireName(f)] = assigned[f]
        /\ \A w \in DecodedKeys \ AssignedKeys : encoded[w] = DecodedValue(w)
        /\ assigned = NoEntity => DOMAIN encoded \subseteq DecodedKeys

C11_Witness ==
    /\ stage = "encoded"
    /\ person_id \in DOMAIN obj
    /\ <<"place", "Id">> \notin DOMAIN obj
    /\ <<"name">> \in DOMAIN obj
    /\ obj[<<"name">>] = "s"
    /\ assigned = (name :> None)
    /\ encoded[<<"name">>] = None
    /\ encoded[<<"person", "Id">>] = obj[person_id]
    /\ <<"place", "Id">> \notin DOMAIN encoded

\* C12 as stated: a key that is not a declared field is not stored on the
\* entity and is not written when the entity is encoded.
C12_UnknownKeysIgnored ==
    /\ stage \in {"entity", "encoded"} => UnknownKey \notin DOMAIN party
    /\ stage = "encoded" => UnknownKey \notin DOMAIN encoded

\* C12: decoding keeps a key that is not a declared field (extra = 'allow'):
\* it is stored on the entity with its value and written back under the same
\* key when the entity is encoded.
C12_UnknownKeysKept ==
    UnknownKey \in DOMAIN obj =>
        /\ stage \in {"entity", "encoded"} =>
               UnknownKey \in DOMAIN party /\ party[UnknownKey] = obj[UnknownKey]
        /\ stage = "encoded" =>
               UnknownKey \in DOMAIN encoded /\ encoded[UnknownKey] = obj[UnknownKey]

C12_Witness ==
    /\ stage = "encoded"
    /\ UnknownKey \in DOMAIN obj
    /\ UnknownKey \in DOMAIN encoded
    /\ encoded[UnknownKey] = "x"
    /\ assigned = NoEntity

(***************************************************************************)
(* The headers argument of _request_w_response                             *)
(***************************************************************************)
Tokens == {"tok1", "tok2"}

Bearer(t) == <<"Bearer", t>>
TrackingID(n) == <<"WXC_SIMPLE_", n>>

\* headers= as callers build it: not passed, empty, or holding own entries
CallerHeaders ==
    { NotPassed,
      HeadersArg(NoHeaders),
      HeadersArg("X-Custom" :> <<"1">>),
      HeadersArg("Authorization" :> Bearer("mine")),
      HeadersArg("X-Custom" :> <<"1">> @@ "Content-type" :> <<"text/plain">>
             @@ "TrackingID" :> TrackingID(0)) }

\* dict.update: the entries of u replace or extend those of h
dict_update(h, u) == [k \in DOMAIN h \cup DOMAIN u |-> IF k \in DOMAIN u THEN u[k] ELSE h[k]]

\* "headers = dict(headers or {})": the attempt always works on a copy
headers_or_dict_copy(h) == [obj |-> "new", val |-> h.map]

\* "headers = headers or dict()": the caller's object unless it is None or
\* empty, else a new mapping
headers_or_dict(h) ==
    IF h.none \/ h.map = NoHeaders
    THEN [obj |-> "new", val |-> NoHeaders]
    ELSE [obj |-> "caller", val |-> h.map]

\* the answers an attempt may get, one of each kind
HeaderAnswers ==
    { [status_code |-> 200, headers |-> ("Content-Type" :> JsonCT),
       text |-> JsonBody([type |-> "list"]), links |-> NoHeaders],
      [status_code |-> 404, headers |-> ("Content-Type" :> JsonCT),
       text |-> EmptyBody, links |-> NoHeaders],
      ConnectionFailure }
    \cup ThrottleResponses

HdrInit ==
    /\ ApiInit
    /\ SchedIdle
    /\ PartyIdle
    /\ DumpIdle
    /\ ThreadsIdle
    /\ LiveIdle
    /\ hpc = "ready"
    /\ given \in CallerHeaders
    /\ kwHeaders = given
    /\ sentHeaders = NoHeaders
    /\ token \in Tokens
    /\ uuids = 0
    /\ h429 = 0
    /\ hOutcome = None

\* one pass through lines 669-673: the local headers, the update, the request
Attempt ==
    /\ hpc = "ready"
    /\ LET h == headers_or_dict(kwHeaders)
           v == dict_update(h.val, "Authorization" :> Bearer(token)
                              @@ "Content-type" :> <<"application/json", ";charset=utf-8">>
                              @@ "TrackingID" :> TrackingID(uuids + 1))
       IN /\ sentHeaders' = v
          /\ kwHeaders' = IF h.obj = "caller" THEN HeadersArg(v) ELSE kwHeaders
    /\ uuids' = uuids + 1
    /\ hpc' = "waiting"
    /\ UNCHANGED <<given, token, h429, hOutcome>>
    /\ UNCHANGED outsideHdr

\* the attempt is answered; backoff calls again with the same arguments
\* after a 429
AnswerAttempt ==
    /\ hpc = "waiting"
    /\ \E r \in HeaderAnswers :
           /\ (IsResponse(r) /\ r.status_code = TooManyRequests) => h429 < MaxThrottle
           /\ LET d == on_exception(request_w_response(r)) IN
              /\ hpc' = IF d.action = "retry" THEN "ready" ELSE "done"
              /\ hOutcome' = IF d.action = "retry" THEN hOutcome ELSE d.action
              /\ h429' = IF d.action = "retry" THEN h429 + 1 ELSE h429
    /\ UNCHANGED <<given, kwHeaders, sentHeaders, token, uuids>>
    /\ UNCHANGED outsideHdr

\* the owner of the tokens replaces the access token
RefreshToken ==
    /\ hpc \in {"ready", "waiting"}
    /\ \E t \in Tokens \ {token} : token' = t
    /\ UNCHANGED <<hpc, given, kwHeaders, sentHeaders, uuids, h429, hOutcome>>
    /\ UNCHANGED outsideHdr

HdrNext == Attempt \/ AnswerAttempt \/ RefreshToken

SpecHeaders == HdrInit /\ [][HdrNext]_vars

\* the caller passed a mapping that is not empty
PassedNonEmpty == ~given.none /\ given.map # NoHeaders

Reserved == {"Authorization", "Content-type", "TrackingID"}

\* after the first attempt the caller's own mapping holds the three entries the
\* attempt wrote, beside its other entries; a mapping not passed or passed
\* empty is left as it was
C19_CallerMapping ==
    /\ (PassedNonEmpty /\ hpc \in {"waiting", "done"}) =>
           /\ kwHeaders.map = sentHeaders
           /\ DOMAIN kwHeaders.map = DOMAIN given.map \cup Reserved
           /\ \A k \in DOMAIN given.map \ Reserved : kwHeaders.map[k] = given.map[k]
           /\ kwHeaders.map["Content-type"] = <<"application/json", ";charset=utf-8">>
           /\ kwHeaders.map["Authorization"] \in {Bearer(t) : t \in Tokens}
           /\ kwHeaders.map["TrackingID"] = TrackingID(uuids)
    /\ ~PassedNonEmpty => kwHeaders = given

\* every attempt writes the token current at that attempt and a tracking id
\* not used before into the caller's mapping; nothing else touches it
C19_EachAttempt ==
    PassedNonEmpty =>
        IF hpc = "ready" /\ hpc' = "waiting"
        THEN /\ kwHeaders'.map["Authorization"] = Bearer(token)
             /\ kwHeaders'.map["TrackingID"] = TrackingID(uuids + 1)
             /\ uuids > 0 => kwHeaders'.map["TrackingID"] # kwHeaders.map["TrackingID"]
             /\ uuids = h429
        ELSE kwHeaders' = kwHeaders

\* C19: a non-empty headers mapping passed by the caller is updated in place
\* on every attempt: after the call, successful or failed, it holds the
\* Authorization, Content-type and TrackingID entries, caller-supplied values
\* for these keys are overwritten, and each retry after a 429 overwrites them
\* again with the token current at that attempt and a fresh tracking id.
C19_HeadersUpdatedInPlace == []C19_CallerMapping /\ [][C19_EachAttempt]_vars

C19_Witness ==
    /\ hpc = "done"
    /\ hOutcome = "raise"
    /\ h429 = 1
    /\ given = HeadersArg("Authorization" :> Bearer("mine"))
    /\ kwHeaders.map["Authorization"] = Bearer("tok2")
    /\ token = "tok2"
    /\ kwHeaders.map["TrackingID"] = TrackingID(2)

(***************************************************************************)
(* dump_response.  The same exchange is made by two runs that differ in    *)
(* the access token only; each run dumps its own response.  A line of the  *)
(* trace is a record with its kind and what is printed on it.              *)
(***************************************************************************)
\* bound: redirects followed before the final response
MaxHistory == 2

Runs == {"a", "b"}

\* the order in which the header lines are printed
HeaderOrder == <<"User-Agent", "Authorization", "Content-type", "TrackingID",
                 "Content-Type", "Retry-After", "Location">>

\* the headers of the request as the session sends it for a run
RequestHeaders(t, withAuth) ==
    LET h == dict_update("User-Agent" :> <<"python-requests">>,
                         "Authorization" :> Bearer(t)
                         @@ "Content-type" :> <<"application/json", ";charset=utf-8">>
                         @@ "TrackingID" :> TrackingID(1))
    IN IF withAuth THEN h ELSE [k \in DOMAIN h \ {"Authorization"} |-> h[k]]

PreparedRequest(t, r, withAuth) ==
    [method |-> r.method, url |-> r.url, body |-> r.json,
     headers |-> RequestHeaders(t, withAuth)]

\* the requests dumped: a GET, or a POST with a JSON body
DumpRequests ==
    { [method |-> "GET", url |-> "u1", json |-> None],
      [method |-> "POST", url |-> "u1", json |-> "payload"] }

\* redirect answers, and the final answers
RedirectAnswers ==
    {[status_code |-> s, headers |-> ("Location" :> <<"u2">>), text |-> EmptyBody,
      links |-> NoHeaders] : s \in {301, 307}}

FinalAnswers ==
    { [status_code |-> 200, headers |-> ("Content-Type" :> JsonCT),
       text |-> JsonBody([type |-> "list"]), links |-> NoHeaders],
      [status_code |-> 200, headers |-> ("Content-Type" :> TextCT),
       text |-> MalformedBody, links |-> NoHeaders],
      [status_code |-> 429, headers |-> ("Retry-After" :> <<3>>),
       text |-> EmptyBody, links |-> NoHeaders] }

\* the request header lines printed as they are, the token included
dump_request_headers_plain(headers) ==
    LET keys == SelectSeq(HeaderOrder, LAMBDA k : k \in DOMAIN headers)
    IN [i \in DOMAIN keys |-> [kind |-> "request header", key |-> keys[i],
                               value |-> headers[keys[i]]]]

\* "for k, v in response.request.headers.items()": Authorization is printed
\* as 'Bearer ***'
dump_request_headers(headers) ==
    LET keys == SelectSeq(HeaderOrder, LAMBDA k : k \in DOMAIN headers)
    IN [i \in DOMAIN keys |->
           [kind |-> "request header", key |-> keys[i],
            value |-> IF keys[i] = "Authorization" THEN <<"Bearer", "***">>
                      ELSE headers[keys[i]]]]

\* the lines for one response, its history aside
dump_one(response) ==
    <<[kind |-> "request", status_code |-> response.status_code,
       method |-> response.request.method, url |-> response.request.url]>>
    \o dump_request_headers(response.request.headers)
    \o (IF response.request.body # None
        THEN <<[kind |-> "request body", body |-> response.request.body]>>
        ELSE <<>>)
    \o <<[kind |-> "response"]>>
    \o (LET keys == SelectSeq(HeaderOrder, LAMBDA k : k \in DOMAIN response.headers)
        IN [i \in DOMAIN keys |-> [kind |-> "response header", key |-> keys[i],
                                   value |-> response.headers[keys[i]]]])
    \o (IF response.text # EmptyBody
        THEN <<[kind |-> "response body", body |-> response.text]>>
        ELSE <<>>)
    \o <<[kind |-> "end"]>>

\* dump_response: nothing unless DEBUG is enabled; the responses of the
\* redirect history first, by the same rules, then the response itself
dump_response(enabled, response) ==
    IF ~enabled THEN <<>>
    ELSE Concat([i \in DOMAIN response.history |-> dump_one(response.history[i])])
         \o dump_one(response)

DumpInit ==
    /\ ApiInit
    /\ SchedIdle
    /\ PartyIdle
    /\ HdrIdle
    /\ ThreadsIdle
    /\ LiveIdle
    /\ dpc = "ready"
    /\ debug \in BOOLEAN
    /\ tok \in [Runs -> Tokens]
    /\ dreq \in DumpRequests
    /\ auth = TRUE
    /\ history = [r \in Runs |-> <<>>]
    /\ final = [r \in Runs |-> NoResponse]
    /\ trace = [r \in Runs |-> <<>>]

\* what a run holds for an answer to the request it has on the wire
Exchange(r, answer) ==
    [status_code |-> answer.status_code, headers |-> answer.headers, text |-> answer.text,
     request |-> PreparedRequest(tok[r], dreq, auth)]

\* the session follows a redirect; on a change of host it drops Authorization
Redirect ==
    /\ dpc = "ready"
    /\ \E answer \in RedirectAnswers, keep \in BOOLEAN :
           /\ Len(history["a"]) < MaxHistory
           /\ history' = [r \in Runs |-> Append(history[r], Exchange(r, answer))]
           /\ auth' = (auth /\ keep)
           /\ dreq' = [dreq EXCEPT !.url = "u2"]
    /\ UNCHANGED <<dpc, debug, tok, final, trace>>
    /\ UNCHANGED outsideDump

\* the response the session returns
FinalAnswer ==
    /\ dpc = "ready"
    /\ \E answer \in FinalAnswers :
           final' = [r \in Runs |->
                        [status_code |-> answer.status_code, headers |-> answer.headers,
                         text |-> answer.text,
                         request |-> PreparedRequest(tok[r], dreq, auth),
                         history |-> history[r]]]
    /\ dpc' = "answered"
    /\ UNCHANGED <<debug, tok, dreq, auth, history, trace>>
    /\ UNCHANGED outsideDump

\* dump_response(response)
Dump ==
    /\ dpc = "answered"
    /\ trace' = [r \in Runs |-> dump_response(debug, final[r])]
    /\ dpc' = "dumped"
    /\ UNCHANGED <<debug, tok, dreq, auth, history, final>>
    /\ UNCHANGED outsideDump

DumpNext == Redirect \/ FinalAnswer \/ Dump

SpecDump == DumpInit /\ [][DumpNext]_vars

\* the Authorization lines of a trace
AuthorizationLines(t) ==
    SelectSeq(t, LAMBDA l : l.kind = "request header" /\ l.key = "Authorization")

\* the responses of a run that were sent with an Authorization header
WithAuthorization(r) ==
    SelectSeq(Append(history[r], final[r]),
              LAMBDA x : "Authorization" \in DOMAIN x.request.headers)

\* C16: the trace never shows the bearer token: for the dumped response and
\* every response of its redirect history the Authorization request header is
\* written as 'Bearer ***', and two runs that differ in the token only write
\* the same trace.
C16_TokenRedacted ==
    dpc = "dumped" =>
        /\ trace["a"] = trace["b"]
        /\ \A r \in Runs :
               /\ \A i \in DOMAIN AuthorizationLines(trace[r]) :
                      AuthorizationLines(trace[r])[i].value = <<"Bearer", "***">>
               /\ debug => Len(AuthorizationLines(trace[r])) = Len(WithAuthorization(r))
               /\ debug => Len(SelectSeq(trace[r], LAMBDA l : l.kind = "end"))
                               = Len(history[r]) + 1

C16_Witness ==
    /\ dpc = "dumped"
    /\ debug
    /\ tok["a"] # tok["b"]
    /\ Len(history["a"]) = 2
    /\ Len(AuthorizationLines(trace["a"])) = 3
    /\ final["a"].request.headers["Authorization"] # final["b"].request.headers["Authorization"]
    /\ trace["a"] = trace["b"]

(***************************************************************************)
(* Calls made in parallel through one client (ThreadPoolExecutor)          *)
(***************************************************************************)
Threads == {"t1", "t2"}

\* the platform: at each URL a page of n items and possibly a link to the
\* next page; "u2" is the last page of every chain
Sites ==
    {("u1" :> [n |-> n1, next |-> x] @@ "u2" :> [n |-> n2, next |-> None]) :
        n1 \in 0..MaxItems, n2 \in 0..MaxItems, x \in {None, "u2"}}

\* the answer of the platform to a GET of u
SiteResponse(st, u) ==
    [status_code |-> 200, headers |-> ("Content-Type" :> JsonCT),
     text |-> JsonBody([type |-> "dict",
                        fields |-> ("items" :> [j \in 1..st[u].n |->
                                                   [page |-> u, idx |-> j, valid |-> TRUE]])]),
     links |-> IF st[u].next = None THEN NoHeaders ELSE ("next" :> st[u].next)]

\* the 429 answer of the platform
SiteThrottle ==
    [status_code |-> TooManyRequests, headers |-> ("Retry-After" :> <<3>>),
     text |-> EmptyBody, links |-> NoHeaders]

\* the calls of the threads: a single GET or a pagination walk
ThreadCalls == {[op |-> o, url |-> u] : o \in {"get", "follow_pagination"}, u \in URLs}

\* an accumulator kept on the client object, one for all threads
ResultCell_shared(t) == "self"

\* "result = []" is a local of follow_pagination: one for each invocation
ResultCell(t) == t

ThreadsInit ==
    /\ ApiInit
    /\ SchedIdle
    /\ PartyIdle
    /\ HdrIdle
    /\ DumpIdle
    /\ LiveIdle
    /\ site \in Sites
    /\ tcall \in [Threads -> ThreadCalls]
    /\ tpc = [t \in Threads |-> "ready"]
    /\ turl = [t \in Threads |-> tcall[t].url]
    /\ results = [c \in {ResultCell(t) : t \in Threads} |-> <<>>]
    /\ tout = [t \in Threads |-> NoOutcome]
    /\ session = {}
    /\ t429 = 0

\* thread t: self._session.request('GET', url, ...)
ThreadSend(t) ==
    /\ tpc[t] = "ready"
    /\ tpc' = [tpc EXCEPT ![t] = "waiting"]
    /\ session' = session \cup {t}
    /\ UNCHANGED <<site, tcall, turl, results, tout, t429>>

\* thread t gets the answer to its request and runs to its next request or
\* to the end of its call
ThreadAnswer(t, r) ==
    /\ tpc[t] = "waiting"
    /\ session' = session \ {t}
    /\ LET a == request_w_response(r)
           d == on_exception(a)
           c == ResultCell(t)
       IN CASE d.action = "retry" ->
                 /\ tpc' = [tpc EXCEPT ![t] = "ready"]
                 /\ t429' = t429 + 1
                 /\ UNCHANGED <<turl, results, tout>>
            [] d.action = "raise" ->
                 /\ tpc' = [tpc EXCEPT ![t] = "done"]
                 /\ tout' = [tout EXCEPT ![t] = Raised(a)]
                 /\ UNCHANGED <<turl, results, t429>>
            [] d.action = "return" /\ tcall[t].op = "get" ->
                 /\ tpc' = [tpc EXCEPT ![t] = "done"]
                 /\ tout' = [tout EXCEPT ![t] = [kind |-> "return", value |-> a.data]]
                 /\ UNCHANGED <<turl, results, t429>>
            [] d.action = "return" /\ tcall[t].op = "follow_pagination" ->
                 LET b == follow_pagination_body(results[c], r, a.data) IN
                 /\ results' = [results EXCEPT ![c] = b.result]
                 /\ turl' = [turl EXCEPT ![t] = b.url]
                 /\ tpc' = [tpc EXCEPT ![t] = IF b.url # None THEN "ready" ELSE "done"]
                 /\ tout' = [tout EXCEPT ![t] =
                                IF b.url # None THEN tout[t]
                                ELSE [kind |-> "return", value |-> b.result]]
                 /\ t429' = t429
    /\ UNCHANGED <<site, tcall>>

ThreadRequest == \E t \in Threads : ThreadSend(t) /\ UNCHANGED outsideThreads

ThreadPage ==
    /\ \E t \in Threads : tpc[t] = "waiting" /\ ThreadAnswer(t, SiteResponse(site, turl[t]))
    /\ UNCHANGED outsideThreads

ThreadThrottled ==
    /\ t429 < MaxThrottle
    /\ \E t \in Threads : ThreadAnswer(t, SiteThrottle)
    /\ UNCHANGED outsideThreads

ThreadsNext == ThreadRequest \/ ThreadPage \/ ThreadThrottled

SpecThreads == ThreadsInit /\ [][ThreadsNext]_vars

RECURSIVE WalkAlone(_, _)
\* what a walk from u returns when nothing else runs: the entities of the
\* pages of its chain, in chain order
WalkAlone(st, u) ==
    [j \in 1..st[u].n |-> [entity |-> <<u, j>>]]
    \o (IF st[u].next = None THEN <<>> ELSE WalkAlone(st, st[u].next))

\* what a call returns when it runs alone
Alone(st, c) ==
    IF c.op = "get" THEN SiteResponse(st, c.url).text.val ELSE WalkAlone(st, c.url)

\* C15: calls issued in parallel through one client do not interfere: in
\* every interleaving each call returns what it returns when run alone, a
\* walk only the items of its own pages in its own page order; a thread with
\* a request on the wire is known to the session and to nothing else.
C15_NoInterference ==
    \A t \in Threads :
        /\ tpc[t] = "done" =>
               /\ tout[t].kind = "return"
               /\ tout[t].value = Alone(site, tcall[t])
        /\ (tpc[t] = "waiting") = (t \in session)

C15_Witness ==
    /\ \A t \in Threads : tpc[t] = "done" /\ tcall[t].op = "follow_pagination"
    /\ tcall["t1"].url = "u1"
    /\ tcall["t2"].url = "u2"
    /\ site["u1"].next = "u2"
    /\ site["u1"].n = 1
    /\ site["u2"].n = 2
    /\ t429 = 1
    /\ Len(tout["t1"].value) = 3
    /\ Len(tout["t2"].value) = 2

(***************************************************************************)
(* Termination.  The platform either throttles finitely often ("finite")   *)
(* or answers every request with 429 ("forever").  The thread runs and     *)
(* the platform answers every request: weak fairness of the send and of    *)
(* the answers.  Counts of exchanges and of 429 answers beyond the caps    *)
(* are not told apart.                                                     *)
(***************************************************************************)
CapExchanges == MaxThrottle + MaxPages + 1
Cap429 == MaxThrottle + 1

\* the answers of the platform, one of each kind that ends or continues a call
LiveAnswers ==
    LET p == Len(fetched) + 1
        more == call.op = "follow_pagination" /\ p < MaxPages
    IN {[status_code |-> 200, headers |-> ("Content-Type" :> JsonCT), text |-> b, links |-> l] :
            b \in {EmptyBody, MalformedBody, JsonBody([type |-> "list"]),
                   JsonBody([type |-> "dict", fields |-> ("total" :> 0)])}
                  \cup {JsonBody([type |-> "dict", fields |-> ("items" :> PageItems(p, valid))]) :
                           valid \in SeqUpTo(BOOLEAN, 1)},
            l \in Links(more)}
       \cup {[status_code |-> s, headers |-> ("Content-Type" :> JsonCT), text |-> EmptyBody,
              links |-> NoHeaders] : s \in {404, 503}}
       \cup (IF n429 < MaxThrottle
             THEN {[status_code |-> TooManyRequests, headers |-> h, text |-> EmptyBody,
                    links |-> NoHeaders] : h \in {NoHeaders, ("Retry-After" :> <<1, 0, 0>>)}}
             ELSE {})
       \cup {ConnectionFailure}

LiveInit ==
    /\ ApiInit
    /\ SchedIdle
    /\ PartyIdle
    /\ HdrIdle
    /\ DumpIdle
    /\ ThreadsIdle
    /\ mode \in {"finite", "forever"}

\* self._session.request(method, *args, headers=headers, **kwargs)
LiveSend ==
    /\ pc = "ready"
    /\ req' = args
    /\ nExchanges' = Min(nExchanges + 1, CapExchanges)
    /\ resp' = NoResponse
    /\ slept' = <<>>
    /\ pc' = "waiting"
    /\ UNCHANGED <<call, args, n429, retryOf, url, result, fetched, outcome>>
    /\ UNCHANGED outsideApi

\* the platform answers, with at most MaxThrottle 429 answers to one call
LiveAnswer ==
    /\ mode = "finite"
    /\ \E r \in LiveAnswers : Respond(r)
    /\ UNCHANGED outsideApi

\* the platform answers 429, whatever came before
ForeverThrottle ==
    /\ mode = "forever"
    /\ pc = "waiting"
    /\ \E r \in ThrottleResponses :
           LET a == request_w_response(r)
               d == on_exception(a)
           IN CASE d.action = "retry" ->
                     /\ pc' = "ready"
                     /\ resp' = r
                     /\ slept' = d.sleeps
                     /\ n429' = Min(n429 + 1, Cap429)
                     /\ retryOf' = req
                     /\ UNCHANGED <<call, args, req, nExchanges, url, result, fetched, outcome>>
                [] d.action = "raise" -> Raise(r, a, d)
                [] d.action = "return" -> ReturnData(r, a)
    /\ UNCHANGED outsideApi

LiveNext == StartRequest \/ StartPagination \/ LiveSend \/ LiveAnswer \/ ForeverThrottle

SpecLive ==
    /\ LiveInit
    /\ [][LiveNext]_vars
    /\ WF_vars(LiveSend)
    /\ WF_vars(LiveAnswer)
    /\ WF_vars(ForeverThrottle)

\* the call is under way
Busy == pc \in {"ready", "waiting"}

\* the call is over: it returned a result or raised an error
Over == pc = "done" /\ outcome.kind \in {"return", "raise"}

\* C18: with finitely many 429 answers and a finite chain of next links every
\* get, post, delete and follow_pagination call eventually returns or raises;
\* when the platform answers 429 forever a call that made a request never
\* returns and never raises: each attempt sleeps at most 20 and is made again.
C18_CompletesOrRetries ==
    /\ (mode = "finite" /\ Busy) ~> Over
    /\ [](mode = "forever" => (pc = "done" => nExchanges = 0))
    /\ (mode = "forever" /\ pc = "waiting") ~> (pc = "ready" /\ Throttled)
    /\ (mode = "forever" /\ pc = "ready") ~> (pc = "waiting")
    /\ [](Throttled => SumSeq(slept) <= MaxRetryAfter)

C18_Witness ==
    /\ mode = "forever"
    /\ call.op = "follow_pagination"
    /\ pc = "waiting"
    /\ n429 = Cap429
    /\ nExchanges = CapExchanges
    /\ outcome = NoOutcome

============================================================================
